---- MODULE Spec2Model ----
(***************************************************************************)
(* A model of the local DHT node of drogulus (drogulus/dht/node.py) and of *)
(* the k-bucket it stores contacts in (drogulus/dht/kbucket.py): the        *)
(* pending-RPC table, the two timers of send_message, the dispatch of       *)
(* inbound messages, the handlers of Store, FindNode, FindValue and Value,  *)
(* the record store, the replications that handle_store schedules, the      *)
(* effect of all of these on the routing table, the Lookup deferred and a   *)
(* k-bucket on its own.                                                     *)
(***************************************************************************)
EXTENDS Integers, Sequences, FiniteSets, TLC

\* Bounds of the model.
MaxReq == 2            \* requests the local node sends (uuids 1..MaxReq)
MaxPeer == 2           \* remote node ids 1..MaxPeer
MaxTime == 2           \* the clock runs from 0 to MaxTime
MaxStore == 2          \* Store messages the node accepts
MaxFree == 1           \* free places of the k-bucket that is watched on its own

\* Program constants.
K == 20                \* capacity of a k-bucket
LocalId == 0           \* self.id of the local node
REPLICATE_INTERVAL == 2    \* constants.REPLICATE_INTERVAL, in steps of the clock

Ids == 0..MaxPeer                  \* every node id a message can declare
Uuids == 1..MaxReq                 \* uuids of the requests the node sends
\* send_message reads the address and the port of the contact and nothing
\* else of it, so one contact that is not the node itself stands for all.
Targets == {1}
Hosts == {"192.168.1.1"}
Ports == {54321}
Version == "0.1"                   \* get_version() of the local node
ErrorCodes == {1, 8}
ResponseTypes == {"Pong", "Nodes", "Value"}
MessageTypes == {"Ping", "Pong", "Error", "Value", "Nodes"}
Senders == {1, 2}                  \* the peers that send requests to the node
StoreUuids == {1}                  \* uuids of the Store requests of the peers
FindUuids == {2}                   \* uuids of their FindNode and FindValue requests
Keys == {1, 2}                     \* keys of records, in the id space
Values == {"value"}
\* Timestamps are floats; the model counts them in tenths of a second.
Timestamps == {15, 20}
\* Expiry times on the clock of the model: before and after the time the
\* replication of a record received at time 0 is due.
Expiries == {1, 4}
ValidatorCodes == {1, 6}           \* err_code of validate_message
\* The k-bucket watched on its own starts with the contacts of Residents,
\* added in the order of their ids; the contacts of BucketIds are then added
\* and removed: two of the residents, and one newcomer more than fits.
Residents == 1..(K - MaxFree)
BucketIds == {1, 2} \cup ((K - MaxFree + 1)..(K + 1))
\* The calls on a small k-bucket: the ids and the last_seen values of the
\* contacts added, the counts handed to getContacts, and the range the
\* bucket was constructed with, which leaves the last id out.
SeenIds == {1, 2, 3}
Seens == {1, 2}
Counts == {-1, 0, 1, 2}
NoExclude == 0                     \* excludeContact=None
RangeMin == 1
RangeMax == 3
LookupKeys == {LocalId} \cup Senders    \* targets of a lookup
LookupTimeouts == {0, 1}           \* timeout of a lookup on the clock; 0 is None
Versions == {"0.1", "0.2"}         \* the versions peers declare in their messages

VARIABLES
    now,          \* time.time()
    issued,       \* number of requests sent so far (uuid4 never repeats)
    req,          \* uuid -> the message of the request and the contact it went to
    conn,         \* uuid -> state of the connection deferred of send_message
    connTimer,    \* uuid -> state of the RPC_TIMEOUT delayed call
    respTimer,    \* uuid -> state of the RESPONSE_TIMEOUT delayed call
    pending,      \* Node._pending: the uuids that map to their deferred
    result,       \* uuid -> how the deferred returned by send_message was fired
    fires,        \* uuid -> number of times that deferred was fired
    sent,         \* uuid -> number of protocol.sendMessage(message) calls
    aborts,       \* uuid -> number of transport.abortConnection() calls
    connCancels,  \* uuid -> number of times the connection attempt was cancelled
    removeLog,    \* uuid -> ids passed to remove_contact by the request's callbacks
    rt,           \* contacts of the routing table, least recently seen first
    store,        \* Node._data_store: key -> the Store message kept for it
    replicate,    \* the delayed send_replicate calls, in the order scheduled
    replicated,   \* the send_replicate calls that ran, with the time they ran
    lookup,       \* the Lookup object, once one is constructed
    bucket,       \* KBucket._contacts of a k-bucket on its own
    ev            \* what the last step did

vars == <<now, issued, req, conn, connTimer, respTimer, pending, result, fires,
          sent, aborts, connCancels, removeLog, rt, store, replicate,
          replicated, lookup, bucket, ev>>

-----------------------------------------------------------------------------
\* Values.

NoReq == [type |-> "none", uuid |-> 0, node |-> 0, target |-> 0]
NoResult == [kind |-> "none", val |-> "none"]

\* Contact(id, address, port, version, last_seen)
Contact(id, address, port, version, last_seen) ==
    [id |-> id, address |-> address, port |-> port, version |-> version,
     last_seen |-> last_seen]

\* Ping(uuid, node, version) as built by send_ping, with the contact it is for.
Ping(uuid, node, target) ==
    [type |-> "Ping", uuid |-> uuid, node |-> node, target |-> target]

\* Pong(uuid, node, version) sent back with protocol.sendMessage(pong, True).
Pong(uuid, node, version) ==
    [type |-> "Pong", uuid |-> uuid, node |-> node, version |-> version,
     close |-> TRUE]

\* What a handler raised: ValueError(code, title, details, uuid).
NoRaise == [code |-> 0, details |-> <<>>, uuid |-> 0]
Raise(code, details, uuid) == [code |-> code, details |-> details, uuid |-> uuid]

\* No message is stored under a key: the default of _data_store.get(key, False).
NoRecord == [type |-> "none"]

\* The signature covers value, timestamp, expires, name and meta.
Signature(value, timestamp, expires) == <<"sig", value, timestamp, expires>>

\* Store(uuid, node, key, value, timestamp, expires, public_key, name, meta,
\* sig, version), with the verdict of validate_message on it.
Store(uuid, node, key, value, timestamp, expires, valid, code) ==
    [type |-> "Store", uuid |-> uuid, node |-> node, key |-> key,
     value |-> value, timestamp |-> timestamp, expires |-> expires,
     public_key |-> "PUBLIC_KEY", name |-> "name", meta |-> "meta",
     sig |-> Signature(value, timestamp, expires), version |-> Version,
     valid |-> valid, code |-> code]

\* FindNode(uuid, node, key, version) and FindValue(uuid, node, key, version)
Find(type, uuid, node, key) ==
    [type |-> type, uuid |-> uuid, node |-> node, key |-> key,
     version |-> Version, valid |-> TRUE, code |-> 0]

\* Value(uuid, node, key, value, timestamp, expires, public_key, name, meta,
\* sig, version) sent back with protocol.sendMessage(result, True).
Value(uuid, node, key, value, timestamp, expires, public_key, name, meta, sig, version) ==
    [type |-> "Value", uuid |-> uuid, node |-> node, key |-> key,
     value |-> value, timestamp |-> timestamp, expires |-> expires,
     public_key |-> public_key, name |-> name, meta |-> meta, sig |-> sig,
     version |-> version, close |-> TRUE]

\* Nodes(uuid, node, nodes, version) sent back with sendMessage(result, True).
Nodes(uuid, node, nodes) ==
    [type |-> "Nodes", uuid |-> uuid, node |-> node, nodes |-> nodes,
     version |-> Version, close |-> TRUE]

\* The Store messages the given peers can send for the given keys with the
\* given expiry times: validate_message passes them, or fails them with one
\* of its error codes.
StoreMessages(nodes, keys, expiries) ==
    { Store(uuid, node, key, value, timestamp, expires, code = 0, code) :
        uuid \in StoreUuids, node \in nodes, key \in keys, value \in Values,
        timestamp \in Timestamps, expires \in expiries,
        code \in ValidatorCodes \cup {0} }

\* The Store messages of every peer for every key, all with the late expiry.
StoresOfPeers == StoreMessages(Senders, Keys, {4})

\* The Store messages of one peer for one key, with every expiry.
StoresOfFirst == StoreMessages({1}, {1}, Expiries)

\* The FindNode and FindValue messages a peer can send.
FindMessages ==
    { Find(type, uuid, node, key) :
        type \in {"FindNode", "FindValue"}, uuid \in FindUuids, node \in Senders,
        key \in Keys }

\* Only an Error message has a code, and only a Value message is put to
\* validate_message by the handlers modelled here.
WellFormed(m) ==
    /\ (m.type = "Error") <=> (m.code # 0)
    /\ (m.type # "Value") => m.valid

\* The inbound messages with a uuid and a declared node id out of the given
\* sets: valid is the verdict of validate_message, code the code of an Error.
Messages(uuids, nodes) ==
    { m \in [type : MessageTypes, uuid : uuids, node : nodes,
             version : {Version}, valid : BOOLEAN,
             code : ErrorCodes \cup {0}] : WellFormed(m) }

\* The same messages as sent by peers of every version.
OfEveryVersion(messages) ==
    { [m EXCEPT !.version = version] : m \in messages, version \in Versions }

\* Messages of all eight types from one peer, of every version: its answers
\* to the first request, and its own requests about the first key.
InboundOfEveryType ==
    OfEveryVersion(Messages({1}, {1}) \cup StoreMessages({1}, {1}, {4})
                   \cup { m \in FindMessages : m.node = 1 /\ m.key = 1 })

\* The Pings by which the peers make themselves known.
PingsOfPeers == { m \in Messages({1}, Senders) : m.type = "Ping" }

\* The inbound messages that declare the id of the contact the requests go to.
InboundOfTarget == Messages(Uuids, Targets)

\* The inbound messages of any node that carry the first uuid.
InboundOfFirst == Messages({1}, Ids)

-----------------------------------------------------------------------------
\* kbucket.py

\* Contact.__eq__: a contact equals a contact of the same id, and that id.
__eq__(contact, id) == contact.id = id

\* contact in self._contacts
Has(contacts, id) == \E i \in 1..Len(contacts) : __eq__(contacts[i], id)

\* list.index: position of the first contact equal to id (0 if there is none).
IndexOf(contacts, id) ==
    IF Has(contacts, id)
    THEN CHOOSE i \in 1..Len(contacts) :
            /\ __eq__(contacts[i], id)
            /\ \A j \in 1..(i - 1) : ~__eq__(contacts[j], id)
    ELSE 0

\* list.remove: drops the first contact equal to id.
ListRemove(contacts, id) ==
    LET i == IndexOf(contacts, id)
    IN  IF i = 0 THEN contacts
        ELSE SubSeq(contacts, 1, i - 1) \o SubSeq(contacts, i + 1, Len(contacts))

\* addContact raises KBucketFull: the contact is not in the bucket and the
\* bucket holds K contacts.
KBucketFull(contacts, contact) ==
    ~Has(contacts, contact.id) /\ ~(Len(contacts) < K)

\* list.remove raises ValueError: no contact of the bucket equals the id.
ValueError(contacts, id) == ~Has(contacts, id)

\* addContact that leaves a contact it already holds where it is.
addContact_stay(contacts, contact) ==
    IF Has(contacts, contact.id)
    THEN contacts
    ELSE IF Len(contacts) < K
         THEN Append(contacts, contact)
         ELSE contacts

\* addContact that appends a new contact whatever the length of the bucket.
addContact_nolimit(contacts, contact) ==
    IF Has(contacts, contact.id)
    THEN Append(ListRemove(contacts, contact.id), contact)
    ELSE Append(contacts, contact)

\* addContact that appends a contact it already holds without removing it.
addContact_again(contacts, contact) ==
    IF Has(contacts, contact.id)
    THEN Append(contacts, contact)
    ELSE IF Len(contacts) < K
         THEN Append(contacts, contact)
         ELSE contacts

\* addContact that puts the contact at the head of the list.
addContact_head(contacts, contact) ==
    IF Has(contacts, contact.id)
    THEN <<contact>> \o ListRemove(contacts, contact.id)
    ELSE IF Len(contacts) < K
         THEN <<contact>> \o contacts
         ELSE contacts

\* KBucket.addContact; a full bucket raises KBucketFull and is left as it is.
addContact(contacts, contact) ==
    IF Has(contacts, contact.id)
    THEN Append(ListRemove(contacts, contact.id), contact)
    ELSE IF Len(contacts) < K
         THEN Append(contacts, contact)
         ELSE contacts

\* removeContact that drops the contact at the tail when the id is there.
removeContact_tail(contacts, id) ==
    IF Has(contacts, id) THEN SubSeq(contacts, 1, Len(contacts) - 1) ELSE contacts

\* KBucket.removeContact; an absent id raises ValueError and changes nothing.
removeContact(contacts, id) == ListRemove(contacts, id)

\* KBucket.getContact: the contact at list.index(id), which raises ValueError
\* for an id that no contact equals.
getContact(contacts, id) == contacts[IndexOf(contacts, id)]

\* getContacts that takes the excluded contact out before it truncates.
getContacts_excludefirst(contacts, count, excludeContact) ==
    LET n == IF count <= 0 THEN Len(contacts) ELSE count
        kept == IF Has(contacts, excludeContact)
                THEN ListRemove(contacts, excludeContact)
                ELSE contacts
    IN  [returned |-> IF Len(kept) < n THEN kept ELSE SubSeq(kept, 1, n),
         contacts |-> contacts]

\* getContacts that returns every contact whatever the count.
getContacts_all(contacts, count, excludeContact) ==
    [returned |-> IF Has(contacts, excludeContact)
                  THEN ListRemove(contacts, excludeContact)
                  ELSE contacts,
     contacts |-> contacts]

\* KBucket.getContacts(count, excludeContact): the list returned, and
\* _contacts after the call; a slice is a new list.
getContacts(contacts, count, excludeContact) ==
    LET n == IF count <= 0 THEN Len(contacts) ELSE count
        currentLen == Len(contacts)
        contactList == IF contacts = <<>>
                       THEN <<>>
                       ELSE IF currentLen < n
                            THEN SubSeq(contacts, 1, currentLen)
                            ELSE SubSeq(contacts, 1, n)
    IN  [returned |-> IF Has(contactList, excludeContact)
                      THEN ListRemove(contactList, excludeContact)
                      ELSE contactList,
         contacts |-> contacts]

\* keyInRange that takes rangeMax for a key of the range.
keyInRange_inclusive(rangeMin, rangeMax, key) ==
    rangeMin <= key /\ key <= rangeMax

\* KBucket.keyInRange(key); an id of the model is the number its string
\* encodes.
keyInRange(rangeMin, rangeMax, key) == rangeMin <= key /\ key < rangeMax

-----------------------------------------------------------------------------
\* The collaborators of the node whose code is outside drogulus/dht/node.py
\* and kbucket.py.

\* DictDataStore.get(key, False)
get(data_store, key) == data_store[key]

\* DictDataStore.set_item(key, value)
set_item(data_store, key, value) == [data_store EXCEPT ![key] = value]

\* '%d' % timestamp: the decimal digits of the timestamp cut to an integer.
FormatD(timestamp) == ToString(timestamp \div 10)

RECURSIVE Xor(_, _)
\* distance(a, b): the exclusive or of two ids.
Xor(a, b) ==
    IF a = 0 THEN b
    ELSE IF b = 0 THEN a
    ELSE (((a % 2) + (b % 2)) % 2) + 2 * Xor(a \div 2, b \div 2)

RECURSIVE SortByDistance(_, _)
\* The contacts in ascending order of their distance to key.
SortByDistance(contacts, key) ==
    IF contacts = <<>> THEN <<>>
    ELSE LET i == CHOOSE i \in 1..Len(contacts) :
                     \A j \in 1..Len(contacts) :
                        Xor(contacts[i].id, key) <= Xor(contacts[j].id, key)
         IN  <<contacts[i]>> \o SortByDistance(ListRemove(contacts, contacts[i].id), key)

\* RoutingTable.find_close_nodes(key): up to K contacts, closest to key first.
find_close_nodes(contacts, key) ==
    LET sorted == SortByDistance(contacts, key)
    IN  SubSeq(sorted, 1, IF Len(sorted) < K THEN Len(sorted) ELSE K)

-----------------------------------------------------------------------------
\* The part of the node that handlers read and write, and what a handler
\* did: the routing-table calls it made, the replies it sent, the deferred it
\* fired, whether it aborted the transport, the contacts it handed to
\* add_contact and the handlers message_received invoked.

Core ==
    [rt |-> rt, pending |-> pending, result |-> result, fires |-> fires,
     aborts |-> aborts, removeLog |-> removeLog,
     store |-> store, replicate |-> replicate,
     calls |-> <<>>, replies |-> <<>>, raised |-> NoRaise, fired |-> "none",
     aborted |-> FALSE, added |-> <<>>, handled |-> <<>>]

\* RoutingTable.add_contact: the node's own id is refused; with fewer than K
\* contacts known the table is its single initial bucket.
add_contact(n, contact) ==
    [n EXCEPT
        !.rt = IF contact.id = LocalId THEN @ ELSE addContact(@, contact),
        !.calls = Append(@, [op |-> "add_contact", id |-> contact.id,
                             forced |-> FALSE]),
        !.added = Append(@, contact)]

\* RoutingTable.remove_contact(id, forced): removes the contact if it is there.
remove_contact(n, id, forced) ==
    [n EXCEPT
        !.rt = removeContact(@, id),
        !.calls = Append(@, [op |-> "remove_contact", id |-> id,
                             forced |-> forced])]

\* Deferred.callback / Deferred.errback on the deferred of request uuid.
Fire(n, uuid, kind, val) ==
    [n EXCEPT
        !.result[uuid] = IF @.kind = "none" THEN [kind |-> kind, val |-> val] ELSE @,
        !.fires[uuid] = @ + 1,
        !.fired = kind]

\* Deferred.cancel: errback(CancelledError) unless the deferred was fired.
Cancel(n, uuid) ==
    IF n.result[uuid].kind = "none"
    THEN Fire(n, uuid, "errback", "CancelledError")
    ELSE n

\* trigger_deferred that fires the deferred of the uuid without looking the
\* uuid up in _pending first.
trigger_deferred_nocheck(n, message, error) ==
    LET f == IF error # "none"
             THEN Fire(n, message.uuid, "errback", error)
             ELSE Fire(n, message.uuid, "callback", "Message")
    IN  [f EXCEPT !.pending = @ \ {message.uuid}]

\* trigger_deferred that leaves the fired deferred in _pending.
trigger_deferred_nodel(n, message, error) ==
    IF message.uuid \in n.pending
    THEN IF error # "none"
         THEN Fire(n, message.uuid, "errback", error)
         ELSE Fire(n, message.uuid, "callback", "Message")
    ELSE n

\* trigger_deferred that empties _pending instead of deleting the one entry.
trigger_deferred_clear(n, message, error) ==
    IF message.uuid \in n.pending
    THEN LET f == IF error # "none"
                  THEN Fire(n, message.uuid, "errback", error)
                  ELSE Fire(n, message.uuid, "callback", "Message")
         IN  [f EXCEPT !.pending = {}]
    ELSE n

\* Node.trigger_deferred
trigger_deferred(n, message, error) ==
    IF message.uuid \in n.pending
    THEN LET f == IF error # "none"
                  THEN Fire(n, message.uuid, "errback", error)
                  ELSE Fire(n, message.uuid, "callback", "Message")
         IN  [f EXCEPT !.pending = @ \ {message.uuid}]
    ELSE n

\* handle_ping that answers with the id and the version of the Ping.
handle_ping_echo(n, message) ==
    [n EXCEPT !.replies = Append(@, Pong(message.uuid, message.node,
                                         message.version))]

\* Node.handle_ping
handle_ping(n, message) ==
    [n EXCEPT !.replies = Append(@, Pong(message.uuid, LocalId, Version))]

\* handle_pong that completes a request only with a Pong that declares the id
\* of the contact the request was sent to.
handle_pong_fromtarget(n, message) ==
    IF message.node = req[message.uuid].target
    THEN trigger_deferred(n, message, "none")
    ELSE n

\* Node.handle_pong
handle_pong(n, message) == trigger_deferred(n, message, "none")

\* handle_store that compares the timestamp with the stored one before it
\* looks at the verdict of validate_message.
handle_store_stalefirst(n, message, sender, t) ==
    LET current == get(n.store, message.key)
    IN  IF current # NoRecord /\ message.timestamp < current.timestamp
        THEN [n EXCEPT !.raised =
                 Raise(8, <<"new_timestamp", FormatD(current.timestamp)>>,
                       message.uuid)]
        ELSE IF message.valid
             THEN [n EXCEPT
                      !.store = set_item(@, message.key, message),
                      !.replies = Append(@, Pong(message.uuid, LocalId, Version)),
                      !.replicate = Append(@, [message |-> message,
                                               due |-> t + REPLICATE_INTERVAL])]
             ELSE [remove_contact(n, sender.id, TRUE) EXCEPT !.raised =
                      Raise(message.code,
                            <<"message",
                              "You have been removed from remote routing table.">>,
                            message.uuid)]

\* handle_store that does not compare the timestamp with the stored one.
handle_store_nocheck(n, message, sender, t) ==
    IF message.valid
    THEN [n EXCEPT
             !.store = set_item(@, message.key, message),
             !.replies = Append(@, Pong(message.uuid, LocalId, Version)),
             !.replicate = Append(@, [message |-> message,
                                      due |-> t + REPLICATE_INTERVAL])]
    ELSE [remove_contact(n, sender.id, TRUE) EXCEPT !.raised =
             Raise(message.code,
                   <<"message", "You have been removed from remote routing table.">>,
                   message.uuid)]

\* handle_store with the comparison of the timestamps the wrong way round.
handle_store_reversed(n, message, sender, t) ==
    IF message.valid
    THEN LET current == get(n.store, message.key)
         IN  IF current # NoRecord /\ message.timestamp > current.timestamp
             THEN [n EXCEPT !.raised =
                      Raise(8, <<"new_timestamp", FormatD(current.timestamp)>>,
                            message.uuid)]
             ELSE [n EXCEPT
                      !.store = set_item(@, message.key, message),
                      !.replies = Append(@, Pong(message.uuid, LocalId, Version)),
                      !.replicate = Append(@, [message |-> message,
                                               due |-> t + REPLICATE_INTERVAL])]
    ELSE [remove_contact(n, sender.id, TRUE) EXCEPT !.raised =
             Raise(message.code,
                   <<"message", "You have been removed from remote routing table.">>,
                   message.uuid)]

\* handle_store that also rejects a timestamp equal to the stored one.
handle_store_le(n, message, sender, t) ==
    IF message.valid
    THEN LET current == get(n.store, message.key)
         IN  IF current # NoRecord /\ message.timestamp <= current.timestamp
             THEN [n EXCEPT !.raised =
                      Raise(8, <<"new_timestamp", FormatD(current.timestamp)>>,
                            message.uuid)]
             ELSE [n EXCEPT
                      !.store = set_item(@, message.key, message),
                      !.replies = Append(@, Pong(message.uuid, LocalId, Version)),
                      !.replicate = Append(@, [message |-> message,
                                               due |-> t + REPLICATE_INTERVAL])]
    ELSE [remove_contact(n, sender.id, TRUE) EXCEPT !.raised =
             Raise(message.code,
                   <<"message", "You have been removed from remote routing table.">>,
                   message.uuid)]

\* handle_store that raises for an invalid message but keeps the sender.
handle_store_noremove(n, message, sender, t) ==
    IF message.valid
    THEN LET current == get(n.store, message.key)
         IN  IF current # NoRecord /\ message.timestamp < current.timestamp
             THEN [n EXCEPT !.raised =
                      Raise(8, <<"new_timestamp", FormatD(current.timestamp)>>,
                            message.uuid)]
             ELSE [n EXCEPT
                      !.store = set_item(@, message.key, message),
                      !.replies = Append(@, Pong(message.uuid, LocalId, Version)),
                      !.replicate = Append(@, [message |-> message,
                                               due |-> t + REPLICATE_INTERVAL])]
    ELSE [n EXCEPT !.raised =
             Raise(message.code,
                   <<"message", "You have been removed from remote routing table.">>,
                   message.uuid)]

\* Node.handle_store
handle_store(n, message, sender, t) ==
    IF message.valid
    THEN LET current == get(n.store, message.key)
         IN  IF current # NoRecord /\ message.timestamp < current.timestamp
             THEN [n EXCEPT !.raised =
                      Raise(8, <<"new_timestamp", FormatD(current.timestamp)>>,
                            message.uuid)]
             ELSE [n EXCEPT
                      !.store = set_item(@, message.key, message),
                      !.replies = Append(@, Pong(message.uuid, LocalId, Version)),
                      !.replicate = Append(@, [message |-> message,
                                               due |-> t + REPLICATE_INTERVAL])]
    ELSE [remove_contact(n, sender.id, TRUE) EXCEPT !.raised =
             Raise(message.code,
                   <<"message", "You have been removed from remote routing table.">>,
                   message.uuid)]

\* handle_find_node that lists the contacts in the order of the routing table.
handle_find_node_unsorted(n, message) ==
    LET close == SubSeq(n.rt, 1, IF Len(n.rt) < K THEN Len(n.rt) ELSE K)
        other_nodes == [i \in 1..Len(close) |->
                          <<close[i].id, close[i].address, close[i].port,
                            close[i].version>>]
    IN  [n EXCEPT !.replies =
             Append(@, Nodes(message.uuid, LocalId, other_nodes))]

\* Node.handle_find_node
handle_find_node(n, message) ==
    LET target_key == message.key
        close == find_close_nodes(n.rt, target_key)
        other_nodes == [i \in 1..Len(close) |->
                          <<close[i].id, close[i].address, close[i].port,
                            close[i].version>>]
    IN  [n EXCEPT !.replies =
             Append(@, Nodes(message.uuid, LocalId, other_nodes))]

\* handle_find_value that answers a match with the uuid of the stored message.
handle_find_value_storeduuid(n, message) ==
    LET match == get(n.store, message.key)
    IN  IF match # NoRecord
        THEN [n EXCEPT !.replies =
                 Append(@, Value(match.uuid, LocalId, match.key, match.value,
                                 match.timestamp, match.expires,
                                 match.public_key, match.name, match.meta,
                                 match.sig, match.version))]
        ELSE handle_find_node(n, message)

\* handle_find_value that sends nothing when the key is not in the store.
handle_find_value_nofallback(n, message) ==
    LET match == get(n.store, message.key)
    IN  IF match # NoRecord
        THEN [n EXCEPT !.replies =
                 Append(@, Value(message.uuid, LocalId, match.key, match.value,
                                 match.timestamp, match.expires,
                                 match.public_key, match.name, match.meta,
                                 match.sig, match.version))]
        ELSE n

\* Node.handle_find_value
handle_find_value(n, message) ==
    LET match == get(n.store, message.key)
    IN  IF match # NoRecord
        THEN [n EXCEPT !.replies =
                 Append(@, Value(message.uuid, LocalId, match.key, match.value,
                                 match.timestamp, match.expires,
                                 match.public_key, match.name, match.meta,
                                 match.sig, match.version))]
        ELSE handle_find_node(n, message)

\* Node.send_replicate: the body is a comment and a string, nothing is sent.
send_replicate(n, store_message) == n

\* Node.handle_error: the error is logged, nothing else.
handle_error(n, message, sender) == n

\* handle_value that fails the deferred of an invalid Value but keeps the
\* sender in the routing table.
handle_value_noevict(n, message, sender) ==
    IF message.valid
    THEN trigger_deferred(n, message, "none")
    ELSE trigger_deferred(n, message, "ValueError")

\* Node.handle_value
handle_value(n, message, sender) ==
    IF message.valid
    THEN trigger_deferred(n, message, "none")
    ELSE trigger_deferred(remove_contact(n, sender.id, TRUE), message, "ValueError")

\* Node.handle_nodes
handle_nodes(n, message) == trigger_deferred(n, message, "none")

\* message_received invokes a handler: the call is recorded with the number
\* of add_contact calls made before it.
Invoke(n, handler) ==
    [n EXCEPT !.handled = Append(@, [handler |-> handler, added |-> Len(n.added)])]

\* message_received that dispatches without updating the routing table.
message_received_noadd(n, message, host, port, t) ==
    LET other_node == Contact(message.node, host, port, message.version, t)
    IN  CASE message.type = "Ping"  -> handle_ping(Invoke(n, "handle_ping"), message)
          [] message.type = "Pong"  -> handle_pong(Invoke(n, "handle_pong"), message)
          [] message.type = "Store" ->
                handle_store(Invoke(n, "handle_store"), message, other_node, t)
          [] message.type = "FindNode" ->
                handle_find_node(Invoke(n, "handle_find_node"), message)
          [] message.type = "FindValue" ->
                handle_find_value(Invoke(n, "handle_find_value"), message)
          [] message.type = "Error" ->
                handle_error(Invoke(n, "handle_error"), message, other_node)
          [] message.type = "Value" ->
                handle_value(Invoke(n, "handle_value"), message, other_node)
          [] message.type = "Nodes" -> handle_nodes(Invoke(n, "handle_nodes"), message)
          [] OTHER -> n

\* message_received that dispatches first and updates the routing table last.
message_received_addlast(n, message, host, port, t) ==
    LET other_node == Contact(message.node, host, port, message.version, t)
        n1 ==
          CASE message.type = "Ping"  -> handle_ping(Invoke(n, "handle_ping"), message)
            [] message.type = "Pong"  -> handle_pong(Invoke(n, "handle_pong"), message)
            [] message.type = "Store" ->
                  handle_store(Invoke(n, "handle_store"), message, other_node, t)
            [] message.type = "FindNode" ->
                  handle_find_node(Invoke(n, "handle_find_node"), message)
            [] message.type = "FindValue" ->
                  handle_find_value(Invoke(n, "handle_find_value"), message)
            [] message.type = "Error" ->
                  handle_error(Invoke(n, "handle_error"), message, other_node)
            [] message.type = "Value" ->
                  handle_value(Invoke(n, "handle_value"), message, other_node)
            [] message.type = "Nodes" -> handle_nodes(Invoke(n, "handle_nodes"), message)
            [] OTHER -> n
    IN  add_contact(n1, other_node)

\* Node.message_received
message_received(n, message, host, port, t) ==
    LET other_node == Contact(message.node, host, port, message.version, t)
        n1 == add_contact(n, other_node)
    IN  CASE message.type = "Ping"  -> handle_ping(Invoke(n1, "handle_ping"), message)
          [] message.type = "Pong"  -> handle_pong(Invoke(n1, "handle_pong"), message)
          [] message.type = "Store" ->
                handle_store(Invoke(n1, "handle_store"), message, other_node, t)
          [] message.type = "FindNode" ->
                handle_find_node(Invoke(n1, "handle_find_node"), message)
          [] message.type = "FindValue" ->
                handle_find_value(Invoke(n1, "handle_find_value"), message)
          [] message.type = "Error" ->
                handle_error(Invoke(n1, "handle_error"), message, other_node)
          [] message.type = "Value" ->
                handle_value(Invoke(n1, "handle_value"), message, other_node)
          [] message.type = "Nodes" -> handle_nodes(Invoke(n1, "handle_nodes"), message)
          [] OTHER -> n1

\* response_timeout that deletes the entry and aborts the connection but does
\* not cancel the deferred.
response_timeout_nocancel(n, message) ==
    IF message.uuid \in n.pending
    THEN LET d == [n EXCEPT !.pending = @ \ {message.uuid},
                            !.aborts[message.uuid] = @ + 1,
                            !.aborted = TRUE,
                            !.removeLog[message.uuid] = Append(@, message.node)]
         IN  remove_contact(d, message.node, FALSE)
    ELSE n

\* response_timeout that cancels and aborts but keeps the entry in _pending.
response_timeout_nodel(n, message) ==
    IF message.uuid \in n.pending
    THEN LET c == Cancel(n, message.uuid)
             d == [c EXCEPT !.aborts[message.uuid] = @ + 1,
                            !.aborted = TRUE,
                            !.removeLog[message.uuid] = Append(@, message.node)]
         IN  remove_contact(d, message.node, FALSE)
    ELSE n

\* response_timeout without the test that the uuid is still pending.
response_timeout_noguard(n, message) ==
    LET c == Cancel(n, message.uuid)
        d == [c EXCEPT !.pending = @ \ {message.uuid},
                       !.aborts[message.uuid] = @ + 1,
                       !.aborted = TRUE,
                       !.removeLog[message.uuid] = Append(@, message.node)]
    IN  remove_contact(d, message.node, FALSE)

\* response_timeout(message, protocol, node)
response_timeout(n, message) ==
    IF message.uuid \in n.pending
    THEN LET c == Cancel(n, message.uuid)
             d == [c EXCEPT !.pending = @ \ {message.uuid},
                            !.aborts[message.uuid] = @ + 1,
                            !.aborted = TRUE,
                            !.removeLog[message.uuid] = Append(@, message.node)]
         IN  remove_contact(d, message.node, FALSE)
    ELSE n

\* on_error of send_message
on_error(n, message, error) ==
    LET r == remove_contact(n, message.node, FALSE)
        l == [r EXCEPT !.removeLog[message.uuid] = Append(@, message.node)]
    IN  Fire(l, message.uuid, "errback", error)

-----------------------------------------------------------------------------
\* The Lookup of node.py: a deferred with the state of one lookup. The
\* message type of the lookup is kept by __init__ and read by nothing.

\* No Lookup has been constructed.
NoLookup ==
    [started |-> FALSE, key |-> 0, shortlist |-> <<>>,
     pending_iteration |-> "None", timer |-> "none", due |-> 0,
     found |-> <<>>, touched |-> <<>>, result |-> NoResult, fires |-> 0]

\* Lookup.__init__ that calls touch_kbucket for every key, the id of the
\* local node included.
Lookup_touchalways(contacts, key, timeout, t) ==
    LET shortlist == find_close_nodes(contacts, key)
    IN  [started |-> TRUE, key |-> key, shortlist |-> shortlist,
         pending_iteration |-> "None",
         timer |-> IF timeout # 0 THEN "scheduled" ELSE "none",
         due |-> IF timeout # 0 THEN t + timeout ELSE 0,
         found |-> <<key>>,
         touched |-> <<key>>,
         result |-> IF shortlist = <<>>
                    THEN [kind |-> "callback", val |-> "None"]
                    ELSE NoResult,
         fires |-> IF shortlist = <<>> THEN 1 ELSE 0]

\* Lookup.__init__(key, message_type, local_node, timeout) at time t, with
\* the contacts of the routing table of local_node; timeout 0 stands for
\* None. found and touched are the keys handed to find_close_nodes and to
\* touch_kbucket.
Lookup(contacts, key, timeout, t) ==
    LET shortlist == find_close_nodes(contacts, key)
    IN  [started |-> TRUE, key |-> key, shortlist |-> shortlist,
         pending_iteration |-> "None",
         timer |-> IF timeout # 0 THEN "scheduled" ELSE "none",
         due |-> IF timeout # 0 THEN t + timeout ELSE 0,
         found |-> <<key>>,
         touched |-> IF key # LocalId THEN <<key>> ELSE <<>>,
         result |-> IF shortlist = <<>>
                    THEN [kind |-> "callback", val |-> "None"]
                    ELSE NoResult,
         fires |-> IF shortlist = <<>> THEN 1 ELSE 0]

\* Lookup.cancel that fails the deferred whether or not it was fired.
cancel_unguarded(l) ==
    LET p == IF l.pending_iteration # "None"
             THEN [l EXCEPT !.pending_iteration = "cancelled"]
             ELSE l
    IN  [p EXCEPT !.result = [kind |-> "errback", val |-> "CancelledError"],
                  !.fires = @ + 1]

\* Lookup.cancel that cancels pending_iteration and leaves the deferred alone.
cancel_iteration_only(l) ==
    IF l.pending_iteration # "None"
    THEN [l EXCEPT !.pending_iteration = "cancelled"]
    ELSE l

\* Lookup.cancel: cancels pending_iteration if there is one, then
\* Deferred.cancel, which fails a deferred that has not been fired with
\* CancelledError and leaves a fired one alone.
cancel(l) ==
    LET p == IF l.pending_iteration # "None"
             THEN [l EXCEPT !.pending_iteration = "cancelled"]
             ELSE l
    IN  IF p.result.kind = "none"
        THEN [p EXCEPT !.result = [kind |-> "errback", val |-> "CancelledError"],
                       !.fires = @ + 1]
        ELSE p

-----------------------------------------------------------------------------
\* Steps.

\* The record of a step: the operation, the uuid it was about, the type and
\* error code of the message handled, whether the uuid was pending before the
\* step, how a deferred was fired, whether the routing table changed, the
\* replies sent with protocol.sendMessage, the error raised, and whether the
\* message was a Store with a timestamp less than that of the record stored
\* under its key before the step.
Event(op, uuid, message, wasPending, n) ==
    [op |-> op, uuid |-> uuid, mtype |-> message.type, code |-> message.code,
     wasPending |-> wasPending, fired |-> n.fired, rtChanged |-> n.rt # rt,
     replies |-> n.replies, raised |-> n.raised,
     older |-> /\ message.type = "Store"
               /\ store[message.key] # NoRecord
               /\ message.timestamp < store[message.key].timestamp]

NoMessage == [type |-> "none", node |-> 0, valid |-> TRUE, code |-> 0]

\* Writes back what a handler did.
Commit(n) ==
    /\ rt' = n.rt
    /\ pending' = n.pending
    /\ result' = n.result
    /\ fires' = n.fires
    /\ aborts' = n.aborts
    /\ removeLog' = n.removeLog
    /\ store' = n.store
    /\ replicate' = n.replicate

\* The node after Node.__init__.
InitNode ==
    /\ now = 0
    /\ issued = 0
    /\ req = [u \in Uuids |-> NoReq]
    /\ conn = [u \in Uuids |-> "none"]
    /\ connTimer = [u \in Uuids |-> "none"]
    /\ respTimer = [u \in Uuids |-> "none"]
    /\ pending = {}
    /\ result = [u \in Uuids |-> NoResult]
    /\ fires = [u \in Uuids |-> 0]
    /\ sent = [u \in Uuids |-> 0]
    /\ aborts = [u \in Uuids |-> 0]
    /\ connCancels = [u \in Uuids |-> 0]
    /\ removeLog = [u \in Uuids |-> <<>>]
    /\ rt = <<>>
    /\ store = [key \in Keys |-> NoRecord]
    /\ replicate = <<>>
    /\ replicated = <<>>
    /\ ev = Event("init", 0, NoMessage, FALSE, Core)

\* The node, no Lookup, and an empty k-bucket after KBucket.__init__.
Init ==
    /\ InitNode
    /\ lookup = NoLookup
    /\ bucket = <<>>

\* The k-bucket after addContact of the contacts of Residents.
InitBucket ==
    /\ InitNode
    /\ lookup = NoLookup
    /\ bucket = [id \in Residents |-> Contact(id, "192.168.1.1", 54321, Version, 0)]

\* time.time() moves on between two steps.
Tick ==
    /\ now < MaxTime
    /\ now' = now + 1
    /\ ev' = Event("tick", 0, NoMessage, FALSE, Core)
    /\ UNCHANGED <<issued, req, conn, connTimer, respTimer, pending, result,
                   fires, sent, aborts, connCancels, removeLog, rt, store,
                   replicate, replicated, lookup,
                   bucket>>

\* send_message that adds the deferred to _pending before the connection is
\* made.
SendPing_register(target) ==
    /\ issued < MaxReq
    /\ LET new_uuid == issued + 1
       IN  /\ issued' = new_uuid
           /\ req' = [req EXCEPT ![new_uuid] = Ping(new_uuid, LocalId, target)]
           /\ conn' = [conn EXCEPT ![new_uuid] = "connecting"]
           /\ connTimer' = [connTimer EXCEPT ![new_uuid] = "active"]
           /\ pending' = pending \cup {new_uuid}
           /\ ev' = Event("send_ping", new_uuid, NoMessage, FALSE, Core)
    /\ UNCHANGED <<now, respTimer, result, fires, sent, aborts,
                   connCancels, removeLog, rt, store, replicate, replicated, lookup,
                   bucket>>

\* Node.send_ping(contact) and the part of send_message that runs before the
\* connection attempt ends: a new uuid, a new deferred, the connection
\* attempt and its RPC_TIMEOUT delayed call.
SendPing(target) ==
    /\ issued < MaxReq
    /\ LET new_uuid == issued + 1
       IN  /\ issued' = new_uuid
           /\ req' = [req EXCEPT ![new_uuid] = Ping(new_uuid, LocalId, target)]
           /\ conn' = [conn EXCEPT ![new_uuid] = "connecting"]
           /\ connTimer' = [connTimer EXCEPT ![new_uuid] = "active"]
           /\ ev' = Event("send_ping", new_uuid, NoMessage, FALSE, Core)
    /\ UNCHANGED <<now, respTimer, pending, result, fires, sent, aborts,
                   connCancels, removeLog, rt, store, replicate, replicated, lookup,
                   bucket>>

\* on_connect that sends the message and registers the deferred but schedules
\* no RESPONSE_TIMEOUT call.
OnConnect_notimer(uuid) ==
    /\ conn[uuid] = "connecting"
    /\ conn' = [conn EXCEPT ![uuid] = "connected"]
    /\ connTimer' = [connTimer EXCEPT
                        ![uuid] = IF @ = "active" THEN "cancelled" ELSE @]
    /\ sent' = [sent EXCEPT ![uuid] = @ + 1]
    /\ pending' = pending \cup {uuid}
    /\ ev' = Event("on_connect", uuid, NoMessage, uuid \in pending, Core)
    /\ UNCHANGED <<now, issued, req, respTimer, result, fires, aborts,
                   connCancels, removeLog, rt, store, replicate, replicated, lookup,
                   bucket>>

\* on_connect that leaves the RPC_TIMEOUT delayed call active.
OnConnect_nocancel(uuid) ==
    /\ conn[uuid] = "connecting"
    /\ conn' = [conn EXCEPT ![uuid] = "connected"]
    /\ sent' = [sent EXCEPT ![uuid] = @ + 1]
    /\ pending' = pending \cup {uuid}
    /\ respTimer' = [respTimer EXCEPT ![uuid] = "scheduled"]
    /\ ev' = Event("on_connect", uuid, NoMessage, uuid \in pending, Core)
    /\ UNCHANGED <<now, issued, req, connTimer, result, fires, aborts,
                   connCancels, removeLog, rt, store, replicate, replicated, lookup,
                   bucket>>

\* The connection is made: on_connect of send_message.
OnConnect(uuid) ==
    /\ conn[uuid] = "connecting"
    /\ conn' = [conn EXCEPT ![uuid] = "connected"]
    /\ connTimer' = [connTimer EXCEPT
                        ![uuid] = IF @ = "active" THEN "cancelled" ELSE @]
    /\ sent' = [sent EXCEPT ![uuid] = @ + 1]
    /\ pending' = pending \cup {uuid}
    /\ respTimer' = [respTimer EXCEPT ![uuid] = "scheduled"]
    /\ ev' = Event("on_connect", uuid, NoMessage, uuid \in pending, Core)
    /\ UNCHANGED <<now, issued, req, result, fires, aborts, connCancels,
                   removeLog, rt, store, replicate, replicated, lookup,
                   bucket>>

\* The connection attempt fails: on_error of send_message.
ConnectFails(uuid) ==
    /\ conn[uuid] = "connecting"
    /\ conn' = [conn EXCEPT ![uuid] = "failed"]
    /\ LET n == on_error(Core, req[uuid], "ConnectError")
       IN  /\ Commit(n)
           /\ ev' = Event("on_error", uuid, NoMessage, uuid \in pending, n)
    /\ UNCHANGED <<now, issued, req, connTimer, respTimer, sent, connCancels,
                   replicated, lookup,
                   bucket>>

\* The RPC_TIMEOUT delayed call runs connection.cancel: an attempt still
\* under way is cancelled, which fires on_error; a finished one is left alone.
RpcTimeout(uuid) ==
    /\ connTimer[uuid] = "active"
    /\ connTimer' = [connTimer EXCEPT ![uuid] = "fired"]
    /\ IF conn[uuid] = "connecting"
       THEN /\ conn' = [conn EXCEPT ![uuid] = "failed"]
            /\ connCancels' = [connCancels EXCEPT ![uuid] = @ + 1]
            /\ LET n == on_error(Core, req[uuid], "CancelledError")
               IN  /\ Commit(n)
                   /\ ev' = Event("rpc_timeout", uuid, NoMessage,
                                  uuid \in pending, n)
       ELSE /\ ev' = Event("rpc_timeout", uuid, NoMessage, uuid \in pending, Core)
            /\ UNCHANGED <<conn, connCancels, rt, pending, result, fires,
                           aborts, removeLog, store, replicate>>
    /\ UNCHANGED <<now, issued, req, respTimer, sent, replicated, lookup,
                   bucket>>

\* The RESPONSE_TIMEOUT delayed call runs response_timeout.
ResponseTimeout(uuid) ==
    /\ respTimer[uuid] = "scheduled"
    /\ respTimer' = [respTimer EXCEPT ![uuid] = "fired"]
    /\ LET n == response_timeout(Core, req[uuid])
       IN  /\ Commit(n)
           /\ ev' = Event("response_timeout", uuid, NoMessage,
                          uuid \in pending, n)
    /\ UNCHANGED <<now, issued, req, conn, connTimer, sent, connCancels,
                   replicated, lookup,
                   bucket>>

\* The replication of the first Store message still waiting is due: the
\* delayed call of handle_store runs send_replicate(message).
Replicate ==
    /\ replicate # <<>>
    /\ Head(replicate).due <= now
    /\ LET message == Head(replicate).message
           n == send_replicate([Core EXCEPT !.replicate = Tail(@)], message)
       IN  /\ Commit(n)
           /\ replicated' = Append(replicated, [message |-> message, at |-> now])
           /\ ev' = Event("send_replicate", message.uuid, NoMessage, FALSE, n)
    /\ UNCHANGED <<now, issued, req, conn, connTimer, respTimer, sent,
                   connCancels, lookup, bucket>>

\* The protocol hands an inbound message to Node.message_received.
MessageReceived(message, host, port) ==
    /\ LET n == message_received(Core, message, host, port, now)
       IN  /\ Commit(n)
           /\ ev' = Event("message_received", message.uuid, message,
                          message.uuid \in pending, n)
    /\ UNCHANGED <<now, issued, req, conn, connTimer, respTimer, sent,
                   connCancels, replicated, lookup,
                   bucket>>

\* A caller constructs Lookup(key, message_type, node, timeout).
StartLookup(key, timeout) ==
    /\ ~lookup.started
    /\ lookup' = Lookup(rt, key, timeout, now)
    /\ ev' = Event("lookup", 0, NoMessage, FALSE, Core)
    /\ UNCHANGED <<now, issued, req, conn, connTimer, respTimer, pending, result,
                   fires, sent, aborts, connCancels, removeLog, rt, store,
                   replicate, replicated, bucket>>

\* The delayed call of Lookup.__init__ runs self.cancel.
LookupTimeout ==
    /\ lookup.timer = "scheduled"
    /\ lookup.due <= now
    /\ lookup' = [cancel(lookup) EXCEPT !.timer = "fired"]
    /\ ev' = Event("lookup_timeout", 0, NoMessage, FALSE, Core)
    /\ UNCHANGED <<now, issued, req, conn, connTimer, respTimer, pending, result,
                   fires, sent, aborts, connCancels, removeLog, rt, store,
                   replicate, replicated, bucket>>

\* The caller of the lookup cancels it.
CancelLookup ==
    /\ lookup.started
    /\ lookup' = cancel(lookup)
    /\ ev' = Event("lookup_cancel", 0, NoMessage, FALSE, Core)
    /\ UNCHANGED <<now, issued, req, conn, connTimer, respTimer, pending, result,
                   fires, sent, aborts, connCancels, removeLog, rt, store,
                   replicate, replicated, bucket>>

\* The clock moves on while a lookup is there; the reactor runs a delayed
\* call that is due before the clock moves past it.
LookupTick ==
    /\ lookup.started
    /\ (lookup.timer = "scheduled") => (now < lookup.due)
    /\ Tick

\* What a call on the k-bucket did: the id it was about, whether the bucket
\* held a contact of that id and how many contacts it held before the call,
\* and the exception the call raised.
BucketEvent(op, id, raised) ==
    [op |-> op, id |-> id, had |-> Has(bucket, id), len |-> Len(bucket),
     raised |-> raised]

\* KBucket.addContact(contact)
AddContact(contact) ==
    /\ bucket' = addContact(bucket, contact)
    /\ ev' = BucketEvent("addContact", contact.id,
                         IF KBucketFull(bucket, contact)
                         THEN "KBucketFull" ELSE "none")
    /\ UNCHANGED <<now, issued, req, conn, connTimer, respTimer, pending, result,
                   fires, sent, aborts, connCancels, removeLog, rt, store,
                   replicate, replicated, lookup>>

\* KBucket.removeContact(id)
RemoveContact(id) ==
    /\ bucket' = removeContact(bucket, id)
    /\ ev' = BucketEvent("removeContact", id,
                         IF ValueError(bucket, id) THEN "ValueError" ELSE "none")
    /\ UNCHANGED <<now, issued, req, conn, connTimer, respTimer, pending, result,
                   fires, sent, aborts, connCancels, removeLog, rt, store,
                   replicate, replicated, lookup>>

\* What a reading call on the k-bucket did: its arguments, the exception it
\* raised and the value it returned.
CallEvent(op, id, count, raised, returned) ==
    [op |-> op, id |-> id, count |-> count, had |-> Has(bucket, id),
     len |-> Len(bucket), raised |-> raised, returned |-> returned]

\* KBucket.getContact(id)
GetContact(id) ==
    /\ bucket' = bucket
    /\ ev' = IF ValueError(bucket, id)
             THEN CallEvent("getContact", id, 0, "ValueError", <<>>)
             ELSE CallEvent("getContact", id, 0, "none",
                            <<getContact(bucket, id)>>)
    /\ UNCHANGED <<now, issued, req, conn, connTimer, respTimer, pending, result,
                   fires, sent, aborts, connCancels, removeLog, rt, store,
                   replicate, replicated, lookup>>

\* KBucket.getContacts(count, excludeContact)
GetContacts(count, excludeContact) ==
    /\ LET r == getContacts(bucket, count, excludeContact)
       IN  /\ bucket' = r.contacts
           /\ ev' = CallEvent("getContacts", excludeContact, count, "none",
                              r.returned)
    /\ UNCHANGED <<now, issued, req, conn, connTimer, respTimer, pending, result,
                   fires, sent, aborts, connCancels, removeLog, rt, store,
                   replicate, replicated, lookup>>

\* The steps of the node's requests, without the inbound messages.
RequestStep ==
    \/ \E uuid \in Uuids : OnConnect(uuid)
    \/ \E uuid \in Uuids : ConnectFails(uuid)
    \/ \E uuid \in Uuids : RpcTimeout(uuid)
    \/ \E uuid \in Uuids : ResponseTimeout(uuid)

\* Up to MaxReq requests in flight at once, to a contact that answers (or
\* not) in every order with every type of message. No step reads the clock
\* but to stamp the contact, so the clock is left out.
Next ==
    \/ \E target \in Targets : SendPing(target)
    \/ RequestStep
    \/ \E message \in InboundOfTarget, host \in Hosts, port \in Ports :
          MessageReceived(message, host, port)

Spec == Init /\ [][Next]_vars

\* Up to MaxReq requests in flight at once, to a contact that answers each
\* with a Pong or with an Error, in any order and any number of times, or
\* does not answer.
NextAnswers ==
    \/ \E target \in Targets : SendPing(target)
    \/ RequestStep
    \/ \E message \in InboundOfTarget, host \in Hosts, port \in Ports :
          message.type \in {"Pong", "Error"} /\ MessageReceived(message, host, port)

\* The reactor keeps running: a delayed call that was scheduled with
\* reactor.callLater and not cancelled runs in the end, be it the
\* RPC_TIMEOUT call of a connection or the RESPONSE_TIMEOUT call of a request.
SpecTimers ==
    /\ Init
    /\ [][NextAnswers]_vars
    /\ \A uuid \in Uuids :
          WF_vars(RpcTimeout(uuid)) /\ WF_vars(ResponseTimeout(uuid))

\* One request, and messages that declare any node id, the node's own
\* included, at any time: the routing table sees every peer come and go.
NextTable ==
    \/ Tick
    \/ \E target \in Targets : issued < 1 /\ SendPing(target)
    \/ RequestStep
    \/ \E message \in InboundOfFirst, host \in Hosts, port \in Ports :
          MessageReceived(message, host, port)

SpecTable == Init /\ [][NextTable]_vars

\* The Store messages accepted so far: each scheduled one replication.
Accepted == Len(replicate) + Len(replicated)

\* The node as a server: peers send it Store, FindNode and FindValue
\* messages, in any order, until it has accepted MaxStore Store messages.
NextStore ==
    \/ \E message \in StoresOfPeers, host \in Hosts, port \in Ports :
          Accepted < MaxStore /\ MessageReceived(message, host, port)
    \/ \E message \in FindMessages, host \in Hosts, port \in Ports :
          MessageReceived(message, host, port)

SpecStore == Init /\ [][NextStore]_vars

\* The replications: one peer sends Store messages for one key while the
\* clock runs and the send_replicate calls scheduled by handle_store come due.
NextReplicate ==
    \/ Tick
    \/ Replicate
    \/ \E message \in StoresOfFirst, host \in Hosts, port \in Ports :
          Accepted < MaxStore /\ MessageReceived(message, host, port)

SpecReplicate == Init /\ [][NextReplicate]_vars

\* The dispatcher: one request of the node that may be pending, and one peer
\* of any version that sends messages of all eight types.
NextDispatch ==
    \/ \E target \in Targets : issued < 1 /\ SendPing(target)
    \/ \E uuid \in Uuids : OnConnect(uuid)
    \/ \E message \in InboundOfEveryType, host \in Hosts, port \in Ports :
          /\ (message.type = "Store") => (Accepted < MaxStore)
          /\ MessageReceived(message, host, port)

SpecDispatch == Init /\ [][NextDispatch]_vars

\* One lookup: peers make themselves known with a Ping at any time, a lookup
\* for the id of the node or of a peer is started with or without a timeout,
\* and is cancelled by its delayed call or by its caller.
NextLookup ==
    \/ LookupTick
    \/ \E message \in PingsOfPeers, host \in Hosts, port \in Ports :
          MessageReceived(message, host, port)
    \/ \E key \in LookupKeys, timeout \in LookupTimeouts : StartLookup(key, timeout)
    \/ LookupTimeout
    \/ CancelLookup

SpecLookup == Init /\ [][NextLookup]_vars

\* The reactor keeps running: the clock moves on and a delayed call that is
\* due runs.
SpecLookupFair ==
    SpecLookup /\ WF_vars(LookupTick) /\ WF_vars(LookupTimeout)

\* The contacts that are added to the k-bucket watched on its own.
BucketContacts ==
    { Contact(id, "192.168.1.1", 54321, Version, 0) : id \in BucketIds }

\* A k-bucket with MaxFree free places: contacts are added and removed in
\* any order.
NextBucket ==
    \/ \E contact \in BucketContacts : AddContact(contact)
    \/ \E id \in BucketIds : RemoveContact(id)

SpecBucket == InitBucket /\ [][NextBucket]_vars

\* The contacts that are added to the small k-bucket: of every id, in and out
\* of the range of the bucket, with every last_seen.
SeenContacts ==
    { Contact(id, "192.168.1.1", 54321, Version, last_seen) :
        id \in SeenIds, last_seen \in Seens }

\* Every call on a k-bucket that starts empty, in any order and with any
\* argument.
NextBucketCalls ==
    \/ \E contact \in SeenContacts : AddContact(contact)
    \/ \E id \in SeenIds : RemoveContact(id)
    \/ \E id \in SeenIds : GetContact(id)
    \/ \E count \in Counts, excludeContact \in SeenIds \cup {NoExclude} :
          GetContacts(count, excludeContact)

SpecBucketCalls == Init /\ [][NextBucketCalls]_vars

-----------------------------------------------------------------------------
\* Properties of the pending-RPC table.

\* The RESPONSE_TIMEOUT call of request uuid runs in this step.
TimerFires(uuid) ==
    respTimer[uuid] = "scheduled" /\ respTimer'[uuid] = "fired"

\* The last step handled a response that came after the RESPONSE_TIMEOUT call
\* of its uuid had run.
LateResponse ==
    /\ ev.op = "message_received"
    /\ ev.mtype \in ResponseTypes
    /\ respTimer[ev.uuid] = "fired"

\* C1: when the RESPONSE_TIMEOUT call runs for a uuid that is still pending,
\* the entry of that uuid is removed, its deferred is failed with
\* CancelledError, the transport is aborted exactly once, and every other
\* pending entry and deferred is left as it was.
C1_TimeoutRemovesEntry ==
    [][\A u \in Uuids :
         (TimerFires(u) /\ u \in pending) =>
            /\ pending' = pending \ {u}
            /\ result[u].kind = "none"
            /\ result'[u] = [kind |-> "errback", val |-> "CancelledError"]
            /\ fires'[u] = 1
            /\ aborts[u] = 0 /\ aborts'[u] = 1
            /\ \A v \in Uuids \ {u} :
                  /\ result'[v] = result[v]
                  /\ fires'[v] = fires[v]
                  /\ aborts'[v] = aborts[v]]_vars

C1_Witness ==
    /\ ev.op = "response_timeout"
    /\ ev.wasPending
    /\ result[ev.uuid].val = "CancelledError"
    /\ pending # {}

\* C2: when RESPONSE_TIMEOUT runs for a pending request sent to a contact
\* other than the node itself, the id passed to remove_contact is the id of
\* that contact.
C2_TimeoutEvictsTarget ==
    \A u \in Uuids :
        (ev.op = "response_timeout" /\ ev.uuid = u /\ ev.wasPending
            /\ req[u].target # LocalId)
        => removeLog[u] = <<req[u].target>>

\* C3: a Pong, Nodes or Value that comes after the RESPONSE_TIMEOUT call of
\* its uuid has run is discarded: no deferred is fired and the pending table
\* is left as it was.
C3_LateResponseDiscarded ==
    [][LateResponse' =>
         /\ ev'.fired = "none"
         /\ pending' = pending
         /\ result' = result
         /\ fires' = fires]_vars

C3_Witness ==
    /\ LateResponse
    /\ result[ev.uuid] = [kind |-> "errback", val |-> "CancelledError"]

\* C4: whatever the order of connection success, connection failure,
\* RPC_TIMEOUT, responses (a second one with the same uuid included) and
\* RESPONSE_TIMEOUT, the deferred returned by send_message is fired at most
\* once.
C4_FiredAtMostOnce ==
    \A u \in Uuids :
        /\ fires[u] <= 1
        /\ (fires[u] = 1) <=> (result[u].kind # "none")

C4_Witness ==
    /\ ev.op = "message_received"
    /\ ev.mtype \in ResponseTypes
    /\ ~ev.wasPending
    /\ result[ev.uuid].kind = "callback"
    /\ fires[ev.uuid] = 1
    /\ \E u \in Uuids : result[u].kind = "errback"

\* The value an errback carries for an Error message with the given code.
ErrorValue(code) == IF code = 1 THEN "Error 1" ELSE "Error 8"

\* C5: an Error message whose uuid is pending fails the deferred of that uuid
\* with an error carrying the code of the message and removes the entry.
C5_ErrorFailsHandle ==
    (ev.op = "message_received" /\ ev.mtype = "Error" /\ ev.wasPending) =>
        /\ ev.uuid \notin pending
        /\ result[ev.uuid] = [kind |-> "errback", val |-> ErrorValue(ev.code)]

\* C6: a request answered with an Error message leads to no remove_contact
\* call, neither when the Error is handled nor when the RESPONSE_TIMEOUT call
\* of the request runs afterwards.
C6_ErrorNeverEvicts ==
    [][/\ (ev'.op = "message_received" /\ ev'.mtype = "Error" /\ ev'.wasPending)
            => removeLog' = removeLog
       /\ (ev.op = "message_received" /\ ev.mtype = "Error" /\ ev.wasPending
              /\ TimerFires(ev.uuid))
            => removeLog'[ev.uuid] = <<>>]_vars

\* The contacts other than the one with the given id, in their order.
Without(contacts, id) == SelectSeq(contacts, LAMBDA c : c.id # id)

\* C7 as stated: handling a response that comes after its RESPONSE_TIMEOUT
\* leaves the routing table exactly as it was.
C7_LateResponseKeepsTable ==
    LateResponse => ~ev.rtChanged

\* C7 as amended: a response that comes after its RESPONSE_TIMEOUT is put
\* through add_contact like every inbound message: its sender, unless it
\* declares the node's own id, becomes the tail of the routing table (or is
\* force-removed if the response is a Value that does not validate), the
\* other contacts keep their order, and the pending table is left alone.
C7_LateResponseRefreshesSender ==
    [][LateResponse' =>
         \A m \in Messages({ev'.uuid}, Ids), host \in Hosts, port \in Ports :
            (m.type = ev'.mtype /\ MessageReceived(m, host, port)) =>
               /\ pending' = pending
               /\ rt' = IF m.node = LocalId THEN rt
                        ELSE IF m.valid
                             THEN Without(rt, m.node) \o
                                  <<Contact(m.node, host, port, m.version, now)>>
                             ELSE Without(rt, m.node)]_vars

C7_Witness ==
    /\ LateResponse
    /\ ev.rtChanged
    /\ Len(rt) > 0

\* C8: the RESPONSE_TIMEOUT call of a uuid that is no longer pending changes
\* nothing: not the pending table, no deferred, no abort of the transport, no
\* remove_contact.
C8_TimeoutOfAbsentUuid ==
    [][\A u \in Uuids :
         (TimerFires(u) /\ u \notin pending) =>
            /\ ev'.fired = "none"
            /\ UNCHANGED <<pending, result, fires, aborts, removeLog, rt>>]_vars

C8_Witness ==
    /\ ev.op = "response_timeout"
    /\ ~ev.wasPending
    /\ aborts[ev.uuid] = 0

\* The deferred of uuid was fired by trigger_deferred.
Triggered(uuid) ==
    result[uuid].kind = "callback" \/ result[uuid].val = "ValueError"

\* C9 as stated: once trigger_deferred has fired the deferred of a uuid, no
\* RESPONSE_TIMEOUT call for that uuid is scheduled any more.
C9_CompletionCancelsTimer ==
    \A u \in Uuids : Triggered(u) => respTimer[u] # "scheduled"

\* C9 as amended: trigger_deferred leaves the RESPONSE_TIMEOUT call of the
\* uuid scheduled; when that call runs later it finds the uuid absent and
\* leaves the deferred, the pending table and the transport alone.
C9_TimerOutlivesCompletion ==
    [][/\ (ev'.op = "message_received" /\ ev'.fired # "none") =>
            /\ respTimer[ev'.uuid] = "scheduled"
            /\ respTimer' = respTimer
       /\ \A u \in Uuids :
            (TimerFires(u) /\ Triggered(u)) =>
                /\ result' = result
                /\ pending' = pending
                /\ aborts' = aborts]_vars

C9_Witness ==
    /\ ev.op = "message_received"
    /\ ev.fired = "callback"
    /\ respTimer[ev.uuid] = "scheduled"
    /\ ev.uuid \notin pending

\* C10: when the connection attempt of send_message fails, by an error or by
\* the cancel of RPC_TIMEOUT, the returned deferred is failed with that error
\* and the id passed to remove_contact is the id of the contact the message
\* was for.
C10_ConnectFailureEvictsTarget ==
    \A u \in Uuids :
        conn[u] = "failed" =>
            /\ result[u].kind = "errback"
            /\ result[u].val \in {"ConnectError", "CancelledError"}
            /\ removeLog[u] = <<req[u].target>>

\* C11: if the RPC_TIMEOUT call runs while the connection attempt is under
\* way, the attempt is cancelled exactly once and the uuid never enters the
\* pending table; if the connection is made first, the RPC_TIMEOUT call is
\* cancelled and never cancels the connection, the message is sent once, and
\* the uuid is put in the pending table together with a RESPONSE_TIMEOUT call.
C11_ConnectOrTimeout ==
    [][\A u \in Uuids :
         /\ (connTimer[u] = "active" /\ connTimer'[u] = "fired"
                /\ conn[u] = "connecting") =>
               /\ connCancels[u] = 0 /\ connCancels'[u] = 1
               /\ conn'[u] = "failed"
               /\ u \notin pending'
         /\ conn'[u] = "failed" =>
               /\ u \notin pending'
               /\ sent'[u] = 0
               /\ respTimer'[u] = "none"
               /\ connCancels'[u] <= 1
         /\ (conn[u] = "connecting" /\ conn'[u] = "connected") =>
               /\ connTimer[u] = "active" /\ connTimer'[u] = "cancelled"
               /\ sent[u] = 0 /\ sent'[u] = 1
               /\ u \notin pending /\ pending' = pending \cup {u}
               /\ respTimer[u] = "none" /\ respTimer'[u] = "scheduled"
         /\ conn'[u] = "connected" =>
               /\ connTimer'[u] = "cancelled"
               /\ connCancels'[u] = 0
               /\ sent'[u] = 1]_vars

C11_Witness ==
    /\ ev.op = "rpc_timeout"
    /\ connCancels[ev.uuid] = 1
    /\ result[ev.uuid].val = "CancelledError"
    /\ \E v \in Uuids : conn[v] = "connected" /\ connTimer[v] = "cancelled"

-----------------------------------------------------------------------------
\* Properties of the handlers of Store, FindNode, FindValue and Value.

\* The step hands the message to message_received.
Received(message) ==
    \E host \in Hosts, port \in Ports : MessageReceived(message, host, port)

\* The Store messages accepted so far, oldest first: every accepted message
\* schedules one send_replicate call, which runs in the order scheduled.
Admitted ==
    [i \in 1..Len(replicated) |-> replicated[i].message] \o
    [i \in 1..Len(replicate) |-> replicate[i].message]

\* The message is valid and the store holds a record of its key with a
\* timestamp greater than the timestamp of the message.
Stale(message) ==
    /\ message.valid
    /\ store[message.key] # NoRecord
    /\ message.timestamp < store[message.key].timestamp

\* C12: a valid Store with a timestamp less than the timestamp of the record
\* stored under its key is rejected with error 8, the uuid of the request and
\* a new_timestamp made from the timestamp of the stored record; the store is
\* left as it was, no Pong is sent and no replication is scheduled.
C12_StaleStoreRejected ==
    [][\A m \in StoresOfPeers :
         (Received(m) /\ Stale(m)) =>
            /\ ev'.raised = Raise(8, <<"new_timestamp",
                                       FormatD(store[m.key].timestamp)>>, m.uuid)
            /\ store' = store
            /\ ev'.replies = <<>>
            /\ replicate' = replicate]_vars

C12_Witness ==
    /\ ev.op = "message_received"
    /\ ev.mtype = "Store"
    /\ ev.raised.code = 8
    /\ ev.raised.details = <<"new_timestamp", "2">>
    /\ \E key \in Keys : store[key] # NoRecord /\ store[key].timestamp = 20

\* C13: after any sequence of Store messages the record stored under a key
\* has the greatest timestamp of all the messages accepted for that key, and
\* the timestamp stored under a key never decreases.
C13_StoredTimestampIsMax ==
    [][\A key \in Keys :
         /\ \A i \in 1..Len(Admitted') :
               Admitted'[i].key = key =>
                  /\ store'[key] # NoRecord
                  /\ Admitted'[i].timestamp <= store'[key].timestamp
         /\ store[key] # NoRecord =>
               /\ store'[key] # NoRecord
               /\ store[key].timestamp <= store'[key].timestamp]_vars

C13_Witness ==
    /\ ev.mtype = "Store"
    /\ Len(Admitted) = 2
    /\ Admitted[1].key = Admitted[2].key
    /\ Admitted[1].timestamp < Admitted[2].timestamp
    /\ store[Admitted[2].key] = Admitted[2]

\* C14: a Store that fails validation is rejected with the error code of the
\* validator and the uuid of the request; the sender is force-removed from
\* the routing table, so that it is absent after message_received although
\* it was added on receipt; the store is left as it was, no Pong is sent and
\* no replication is scheduled.
C14_InvalidStoreRejected ==
    [][\A m \in StoresOfPeers, host \in Hosts, port \in Ports :
         (MessageReceived(m, host, port) /\ ~m.valid) =>
            /\ ev'.raised.code = m.code
            /\ ev'.raised.uuid = m.uuid
            /\ message_received(Core, m, host, port, now).calls =
                  << [op |-> "add_contact", id |-> m.node, forced |-> FALSE],
                     [op |-> "remove_contact", id |-> m.node, forced |-> TRUE] >>
            /\ ~Has(rt', m.node)
            /\ rt' = Without(rt, m.node)
            /\ store' = store
            /\ ev'.replies = <<>>
            /\ replicate' = replicate]_vars

C14_Witness ==
    /\ ev.op = "message_received"
    /\ ev.mtype = "Store"
    /\ ev.raised.code = 6
    /\ ev.rtChanged
    /\ Len(rt) = 1
    /\ \E key \in Keys : store[key] # NoRecord

\* C15: a valid Store whose timestamp is greater than or equal to the
\* timestamp of the record stored under its key, or whose key has no record,
\* replaces the record with the message, sends exactly one Pong with the uuid
\* of the request and the id of the node and closes the transport, and
\* schedules exactly one send_replicate call for the message at
\* REPLICATE_INTERVAL from now.
C15_FreshStoreAccepted ==
    [][\A m \in StoresOfPeers :
         (Received(m) /\ m.valid /\ ~Stale(m)) =>
            /\ store' = [store EXCEPT ![m.key] = m]
            /\ ev'.replies = << [type |-> "Pong", uuid |-> m.uuid,
                                 node |-> LocalId, version |-> Version,
                                 close |-> TRUE] >>
            /\ ev'.raised = NoRaise
            /\ replicate' = Append(replicate,
                                   [message |-> m, due |-> now + REPLICATE_INTERVAL])
            /\ replicated' = replicated]_vars

C15_Witness ==
    /\ ev.op = "message_received"
    /\ ev.mtype = "Store"
    /\ Len(ev.replies) = 1
    /\ Len(replicate) = 2
    /\ replicate[1].message.key = replicate[2].message.key
    /\ replicate[1].message.timestamp = replicate[2].message.timestamp
    /\ replicate[1].message # replicate[2].message
    /\ store[replicate[2].message.key] = replicate[2].message

\* C16: the replication scheduled by an accepted Store is cancelled once the
\* record has expired: send_replicate never runs for a message whose expires
\* is earlier than the time at which the delayed call runs.
C16_NoReplicationAfterExpiry ==
    \A i \in 1..Len(replicated) :
        replicated[i].message.expires >= replicated[i].at

\* The last message accepted for the key (NoRecord if there is none).
LastAdmitted(key) ==
    LET is == { i \in 1..Len(Admitted) : Admitted[i].key = key }
    IN  IF is = {} THEN NoRecord
        ELSE Admitted[CHOOSE i \in is : \A j \in is : j <= i]

\* C17: a FindValue for a key for which Store messages were accepted is
\* answered with a Value whose key, value, timestamp, expires, public_key,
\* name, meta and sig are those of the last accepted Store message of the
\* key, with the uuid of the FindValue and the id of the node.
C17_FindValueReturnsStored ==
    [][\A m \in FindMessages :
         (Received(m) /\ m.type = "FindValue" /\ LastAdmitted(m.key) # NoRecord) =>
            LET r == LastAdmitted(m.key)
            IN  ev'.replies =
                  << [type |-> "Value", uuid |-> m.uuid, node |-> LocalId,
                      key |-> r.key, value |-> r.value,
                      timestamp |-> r.timestamp, expires |-> r.expires,
                      public_key |-> r.public_key, name |-> r.name,
                      meta |-> r.meta, sig |-> r.sig, version |-> r.version,
                      close |-> TRUE] >>]_vars

C17_Witness ==
    /\ ev.op = "message_received"
    /\ ev.mtype = "FindValue"
    /\ Len(ev.replies) = 1
    /\ ev.replies[1].type = "Value"
    /\ Len(Admitted) = 2
    /\ Admitted[1].key = Admitted[2].key
    /\ Admitted[1] # Admitted[2]
    /\ ev.replies[1].timestamp = Admitted[2].timestamp
    /\ ev.replies[1].uuid # Admitted[2].uuid

\* C18: when the store holds no record of the key, handling a FindValue sends
\* the reply and makes the changes that handling a FindNode with the same
\* uuid and key makes, a Nodes message; when it holds one, no Nodes message
\* is sent.
C18_FindValueFallsBack ==
    [][\A m \in FindMessages, host \in Hosts, port \in Ports :
         (MessageReceived(m, host, port) /\ m.type = "FindValue") =>
            IF store[m.key] = NoRecord
            THEN LET n == message_received(Core, [m EXCEPT !.type = "FindNode"],
                                           host, port, now)
                 IN  /\ ev'.replies = n.replies
                     /\ Len(ev'.replies) = 1
                     /\ ev'.replies[1].type = "Nodes"
                     /\ ev'.raised = n.raised
                     /\ rt' = n.rt
                     /\ store' = n.store
                     /\ pending' = n.pending
                     /\ replicate' = n.replicate
            ELSE \A i \in 1..Len(ev'.replies) : ev'.replies[i].type # "Nodes"]_vars

C18_Witness ==
    /\ ev.op = "message_received"
    /\ ev.mtype = "FindValue"
    /\ Len(ev.replies) = 1
    /\ ev.replies[1].type = "Nodes"
    /\ Len(ev.replies[1].nodes) = 2
    /\ \E key \in Keys : store[key] # NoRecord

\* The (id, address, port, version) of each contact, in their order.
Tuples(contacts) ==
    [i \in 1..Len(contacts) |->
        <<contacts[i].id, contacts[i].address, contacts[i].port,
          contacts[i].version>>]

\* C19: handling a FindNode sends exactly one Nodes message with the uuid of
\* the request and the id of the node, which lists (id, address, port,
\* version) of exactly the contacts that find_close_nodes(message.key)
\* returns, in that order and K of them at most, and closes the transport;
\* the handler leaves the routing table (as add_contact left it), the store
\* and the pending table alone.
C19_FindNodeRepliesClosest ==
    [][\A m \in FindMessages, host \in Hosts, port \in Ports :
         (MessageReceived(m, host, port) /\ m.type = "FindNode") =>
            LET n1 == add_contact(Core, Contact(m.node, host, port, m.version, now))
                close == find_close_nodes(n1.rt, m.key)
            IN  /\ ev'.replies =
                      << [type |-> "Nodes", uuid |-> m.uuid, node |-> LocalId,
                          nodes |-> Tuples(close), version |-> Version,
                          close |-> TRUE] >>
                /\ Len(close) <= K
                /\ \A i \in 1..(Len(close) - 1) :
                      Xor(close[i].id, m.key) < Xor(close[i + 1].id, m.key)
                /\ rt' = n1.rt
                /\ store' = store
                /\ pending' = pending]_vars

C19_Witness ==
    /\ ev.op = "message_received"
    /\ ev.mtype = "FindNode"
    /\ Len(ev.replies) = 1
    /\ Len(ev.replies[1].nodes) = 2
    /\ Len(rt) = 2
    /\ ev.replies[1].nodes[1][1] = rt[2].id

\* The calls of remove_contact among the routing-table calls of a handler.
Removals(calls) == SelectSeq(calls, LAMBDA c : c.op = "remove_contact")

\* C20: a Value that validates completes the deferred pending under its uuid
\* with the message and removes no contact; a Value that does not validate
\* force-removes its sender from the routing table and fails that deferred
\* with an error; either way the uuid leaves the pending table, and when the
\* uuid is not pending no deferred is fired.
C20_ValueCompletesOrFails ==
    [][(ev'.op = "message_received" /\ ev'.mtype = "Value") =>
         \A m \in Messages({ev'.uuid}, Ids), host \in Hosts, port \in Ports :
            (m.type = "Value" /\ MessageReceived(m, host, port)) =>
               LET n == message_received(Core, m, host, port, now)
               IN  /\ m.valid =>
                         /\ Removals(n.calls) = <<>>
                         /\ m.node # LocalId => Has(rt', m.node)
                         /\ m.uuid \in pending =>
                               /\ ev'.fired = "callback"
                               /\ result[m.uuid].kind = "none"
                               /\ result'[m.uuid] =
                                     [kind |-> "callback", val |-> "Message"]
                   /\ ~m.valid =>
                         /\ Removals(n.calls) =
                               << [op |-> "remove_contact", id |-> m.node,
                                   forced |-> TRUE] >>
                         /\ rt' = Without(rt, m.node)
                         /\ m.uuid \in pending =>
                               /\ ev'.fired = "errback"
                               /\ result[m.uuid].kind = "none"
                               /\ result'[m.uuid] =
                                     [kind |-> "errback", val |-> "ValueError"]
                   /\ m.uuid \notin pending'
                   /\ pending' = pending \ {m.uuid}
                   /\ m.uuid \notin pending =>
                         /\ ev'.fired = "none"
                         /\ result' = result
                         /\ fires' = fires]_vars

C20_Witness ==
    /\ ev.op = "message_received"
    /\ ev.mtype = "Value"
    /\ ev.wasPending
    /\ ev.fired = "errback"
    /\ result[ev.uuid].val = "ValueError"
    /\ ev.rtChanged
    /\ Len(rt) > 0

-----------------------------------------------------------------------------
\* Properties of the dispatch of inbound messages.

\* C21: handling a Pong or a Nodes message whose uuid is pending fires the
\* deferred of that uuid, and no other, with the message and deletes that
\* uuid, and no other, from _pending; a Pong or a Nodes message whose uuid is
\* not pending leaves _pending as it is and fires no deferred.
C21_ResponseCompletesItsEntry ==
    [][\A message \in InboundOfTarget, host \in Hosts, port \in Ports :
          (/\ message.type \in {"Pong", "Nodes"}
           /\ message.type = ev'.mtype
           /\ message.uuid = ev'.uuid
           /\ MessageReceived(message, host, port))
          => IF message.uuid \in pending
             THEN /\ pending' = pending \ {message.uuid}
                  /\ result'[message.uuid] = [kind |-> "callback", val |-> "Message"]
                  /\ fires'[message.uuid] = fires[message.uuid] + 1
                  /\ \A other \in Uuids \ {message.uuid} :
                        /\ result'[other] = result[other]
                        /\ fires'[other] = fires[other]
             ELSE /\ pending' = pending
                  /\ result' = result
                  /\ fires' = fires
                  /\ ev'.fired = "none"]_vars

\* A Nodes message completed one of two pending requests; the other request
\* is still pending and its deferred has not been fired.
C21_Witness ==
    /\ ev.op = "message_received"
    /\ ev.mtype = "Nodes"
    /\ ev.wasPending
    /\ ev.fired = "callback"
    /\ result[ev.uuid].kind = "callback"
    /\ \E other \in pending : other # ev.uuid /\ fires[other] = 0

\* C22: handling a Ping sends exactly one reply, a Pong with the uuid of the
\* Ping, the id and the version of the local node and the order to close the
\* transport, and leaves _pending and the record store as they were.
C22_PingAnsweredWithPong ==
    [][\A message \in InboundOfEveryType, host \in Hosts, port \in Ports :
          (message.type = "Ping" /\ MessageReceived(message, host, port))
          => /\ ev'.replies = << [type |-> "Pong", uuid |-> message.uuid,
                                  node |-> LocalId, version |-> Version,
                                  close |-> TRUE] >>
             /\ pending' = pending
             /\ store' = store]_vars

\* A Ping of a peer of another version was answered while a request was
\* pending and a record was stored.
C22_Witness ==
    /\ ev.op = "message_received"
    /\ ev.mtype = "Ping"
    /\ Len(ev.replies) = 1
    /\ ev.replies[1].type = "Pong"
    /\ rt # <<>>
    /\ rt[Len(rt)].version # Version
    /\ pending # {}
    /\ \E key \in Keys : store[key] # NoRecord

\* The handler of message_received for each type of message.
HandlerOf(type) ==
    CASE type = "Ping" -> "handle_ping"
      [] type = "Pong" -> "handle_pong"
      [] type = "Store" -> "handle_store"
      [] type = "FindNode" -> "handle_find_node"
      [] type = "FindValue" -> "handle_find_value"
      [] type = "Error" -> "handle_error"
      [] type = "Value" -> "handle_value"
      [] type = "Nodes" -> "handle_nodes"

\* C23: for an inbound message of any of the eight types message_received
\* calls add_contact exactly once, with the contact made of the host and the
\* port of the peer and the node id and the version of the message, and then,
\* that call made, invokes the handler of the type of the message and no
\* other handler.
C23_AddContactThenOneHandler ==
    [][\A message \in InboundOfEveryType, host \in Hosts, port \in Ports :
          (/\ message.type = ev'.mtype
           /\ MessageReceived(message, host, port))
          => LET n == message_received(Core, message, host, port, now)
             IN  /\ n.added = << Contact(message.node, host, port,
                                         message.version, now) >>
                 /\ n.calls[1] = [op |-> "add_contact", id |-> message.node,
                                  forced |-> FALSE]
                 /\ n.handled = << [handler |-> HandlerOf(message.type),
                                    added |-> 1] >>]_vars

\* A Store of a peer of another version was handled: the peer is the most
\* recently seen contact, with that version, and its record is stored.
C23_Witness ==
    /\ ev.op = "message_received"
    /\ ev.mtype = "Store"
    /\ rt # <<>>
    /\ rt[Len(rt)] = Contact(1, "192.168.1.1", 54321, "0.2", now)
    /\ \E key \in Keys : store[key] # NoRecord /\ store[key].version = "0.2"

-----------------------------------------------------------------------------
\* Properties of the Lookup.

\* C24: a lookup constructed while find_close_nodes yields no contact is
\* fired at construction with the callback value None, and no later step,
\* the delayed cancel of its timeout and a cancel by its caller included,
\* changes that result or fires the lookup again.
C24_NoPeersLookupCallsBackNone ==
    [][/\ \A key \in LookupKeys, timeout \in LookupTimeouts :
             (StartLookup(key, timeout) /\ find_close_nodes(rt, key) = <<>>)
             => /\ lookup'.result = [kind |-> "callback", val |-> "None"]
                /\ lookup'.fires = 1
       /\ (lookup.started /\ lookup.shortlist = <<>>)
             => /\ lookup'.result = [kind |-> "callback", val |-> "None"]
                /\ lookup'.fires = 1]_vars

\* A lookup that found no peers was cancelled by its caller after the
\* delayed call of its timeout had run, and still holds None.
C24_Witness ==
    /\ lookup.started
    /\ lookup.shortlist = <<>>
    /\ lookup.timer = "fired"
    /\ ev.op = "lookup_cancel"
    /\ lookup.result = [kind |-> "callback", val |-> "None"]

\* C25: constructing a lookup calls touch_kbucket once, with the target, when
\* the target is not the id of the local node and not at all when it is, and
\* calls find_close_nodes once, with the target, whose result becomes the
\* shortlist; no later step of the lookup makes either call again.
C25_LookupTouchesAndSeeds ==
    [][/\ \A key \in LookupKeys, timeout \in LookupTimeouts :
             StartLookup(key, timeout)
             => /\ lookup'.touched = IF key # LocalId THEN <<key>> ELSE <<>>
                /\ lookup'.found = <<key>>
                /\ lookup'.shortlist = find_close_nodes(rt, key)
       /\ lookup.started
             => /\ lookup'.touched = lookup.touched
                /\ lookup'.found = lookup.found
                /\ lookup'.shortlist = lookup.shortlist]_vars

\* A lookup for the id of the local node was started with a peer known: the
\* shortlist is seeded and no bucket was touched.
C25_Witness ==
    /\ lookup.started
    /\ lookup.key = LocalId
    /\ lookup.shortlist # <<>>
    /\ lookup.found = <<LocalId>>
    /\ lookup.touched = <<>>

\* C26: when the delayed call of the timeout runs on a lookup that has not
\* been fired, pending_iteration, if there is one, is cancelled and the
\* lookup is fired once, with a failure; so a lookup constructed with a
\* timeout has been fired once its delayed call has run, which is before the
\* clock moves past the time the call is due.
C26_TimeoutFailsLookup ==
    /\ [][(LookupTimeout /\ lookup.result.kind = "none")
            => /\ lookup'.result.kind = "errback"
               /\ lookup'.fires = 1
               /\ (lookup.pending_iteration # "None")
                     => (lookup'.pending_iteration = "cancelled")]_vars
    /\ [](lookup.timer = "fired" => lookup.result.kind # "none")
    /\ []((lookup.timer # "none" /\ now > lookup.due)
             => lookup.result.kind # "none")

\* The delayed call ran at the time it was due on a lookup with a peer in its
\* shortlist, and failed it.
C26_Witness ==
    /\ lookup.started
    /\ lookup.shortlist # <<>>
    /\ lookup.timer = "fired"
    /\ ev.op = "lookup_timeout"
    /\ now = lookup.due
    /\ lookup.result = [kind |-> "errback", val |-> "CancelledError"]

\* The lookup was constructed with a shortlist of one contact, which has the
\* id the lookup is for.
SingleNodeLookup ==
    /\ lookup.started
    /\ Len(lookup.shortlist) = 1
    /\ lookup.shortlist[1].id = lookup.key

\* C27: a lookup for an id in the routing table that is constructed with a
\* shortlist of the one contact of that id comes to an end with a result
\* whose first element is that contact.
C27_SingleNodeLookupReturnsIt ==
    SingleNodeLookup
    ~> (/\ lookup.result.kind = "callback"
        /\ lookup.result.val # "None"
        /\ lookup.result.val[1] = lookup.shortlist[1])

-----------------------------------------------------------------------------
\* Properties of the k-bucket.

\* C28: addContact of a contact whose id the bucket already holds leaves the
\* length of the bucket unchanged, leaves the other contacts in the order
\* they were in and puts the contact at the tail, and raises nothing; this
\* holds for a bucket of K contacts too.
C28_PresentContactMovesToTail ==
    [][\A contact \in BucketContacts :
          (AddContact(contact) /\ Has(bucket, contact.id))
          => /\ Len(bucket') = Len(bucket)
             /\ Without(bucket', contact.id) = Without(bucket, contact.id)
             /\ bucket'[Len(bucket')] = contact
             /\ \A i \in 1..(Len(bucket') - 1) : bucket'[i].id # contact.id
             /\ ev'.raised = "none"]_vars

\* A contact that was not at the tail of a bucket of K contacts was added
\* again and is now at the tail.
C28_Witness ==
    /\ ev.op = "addContact"
    /\ ev.had
    /\ ev.len = K
    /\ ev.raised = "none"
    /\ Len(bucket) = K
    /\ bucket[K].id = ev.id
    /\ bucket[K].id = 1
    /\ bucket[1].id = 2

\* C29: the bucket never holds more than K contacts; addContact of a contact
\* whose id the bucket does not hold appends it at the tail when the bucket
\* holds fewer than K contacts, and otherwise raises KBucketFull and leaves
\* the contacts and their order as they were.
C29_AtMostKContacts ==
    /\ [](Len(bucket) <= K)
    /\ [][\A contact \in BucketContacts :
             (AddContact(contact) /\ ~Has(bucket, contact.id))
             => IF Len(bucket) < K
                THEN /\ bucket' = Append(bucket, contact)
                     /\ ev'.raised = "none"
                ELSE /\ bucket' = bucket
                     /\ ev'.raised = "KBucketFull"]_vars

\* A new contact was refused by a bucket of K contacts.
C29_Witness ==
    /\ ev.op = "addContact"
    /\ ~ev.had
    /\ ev.len = K
    /\ ev.raised = "KBucketFull"
    /\ Len(bucket) = K
    /\ ~Has(bucket, ev.id)

\* C30: the bucket never holds two contacts of the same id.
C30_NoDuplicateIds ==
    \A i, j \in 1..Len(bucket) :
        (bucket[i].id = bucket[j].id) => (i = j)

\* A contact the bucket held was added again, another was removed and a new
\* one added: the bucket is full and holds the first contact once, at the
\* place before the tail.
C30_Witness ==
    /\ ev.op = "addContact"
    /\ ~ev.had
    /\ ev.len = K - 1
    /\ Len(bucket) = K
    /\ bucket[K - 1].id = 1
    /\ Len(Without(bucket, 1)) = K - 1
    /\ ~Has(bucket, 2)

\* The contacts are in ascending order of last_seen.
Ascending(contacts) ==
    \A i, j \in 1..Len(contacts) :
        (i < j) => (contacts[i].last_seen <= contacts[j].last_seen)

\* C31, as claimed: the contacts of the bucket are in ascending order of
\* last_seen after any addContact and removeContact calls, whatever
\* last_seen the contacts added carry.
C31_AscendingLastSeen == Ascending(bucket)

\* C31, as the code has it: addContact puts the contact at the tail without
\* reading last_seen, so the bucket is in the order of the latest addContact
\* of each contact; it stays in ascending order of last_seen when the
\* contact added carries a last_seen no less than any in the bucket, as the
\* contact of message_received does, and through any removeContact.
C31_AscendingWhenAddedInOrder ==
    [][/\ \A contact \in SeenContacts :
             (AddContact(contact) /\ ~KBucketFull(bucket, contact))
             => /\ bucket'[Len(bucket')] = contact
                /\ Without(bucket', contact.id) = Without(bucket, contact.id)
                /\ (/\ Ascending(bucket)
                    /\ \A i \in 1..Len(bucket) :
                          bucket[i].last_seen <= contact.last_seen)
                      => Ascending(bucket')
       /\ \A id \in SeenIds :
             (RemoveContact(id) /\ Ascending(bucket)) => Ascending(bucket')]_vars

\* The head of a bucket of three contacts was seen again and added with a
\* later last_seen: it is at the tail and the bucket is in ascending order.
C31_Witness ==
    /\ ev.op = "addContact"
    /\ ev.had
    /\ ev.len = 3
    /\ Len(bucket) = 3
    /\ bucket[3].id = ev.id
    /\ bucket[3].last_seen = 2
    /\ bucket[1].last_seen = 1
    /\ Ascending(bucket)

\* The place of the contact of an id in a list that holds one.
PlaceOf(contacts, id) == CHOOSE i \in 1..Len(contacts) : contacts[i].id = id

\* Every contact of returned is in contacts, and a contact that comes before
\* another in returned comes after it in contacts.
TailFirst(returned, contacts) ==
    /\ \A i \in 1..Len(returned) : Has(contacts, returned[i].id)
    /\ \A i, j \in 1..Len(returned) :
          (i < j) => (PlaceOf(contacts, returned[i].id) >
                      PlaceOf(contacts, returned[j].id))

\* C32, as claimed: getContacts returns at most count contacts of the bucket,
\* all of them for a count of zero or less, most recently seen first, and
\* never the excluded contact.
C32_GetContactsTailFirst ==
    [][\A count \in Counts, excludeContact \in SeenIds \cup {NoExclude} :
          GetContacts(count, excludeContact)
          => /\ (count > 0) => (Len(ev'.returned) <= count)
             /\ TailFirst(ev'.returned, bucket)
             /\ ~Has(ev'.returned, excludeContact)]_vars

\* C32, as the code has it: getContacts returns the contacts from the head of
\* the bucket, in the order of the bucket, least recently seen first: the
\* first count of them, or all for a count of zero or less or greater than
\* the length, without the excluded contact; so at most count for a
\* positive count.
C32_GetContactsHeadFirst ==
    [][\A count \in Counts, excludeContact \in SeenIds \cup {NoExclude} :
          GetContacts(count, excludeContact)
          => LET n == IF count <= 0 \/ count > Len(bucket)
                      THEN Len(bucket) ELSE count
             IN  /\ ev'.returned = Without(SubSeq(bucket, 1, n), excludeContact)
                 /\ (count > 0) => (Len(ev'.returned) <= count)
                 /\ ~Has(ev'.returned, excludeContact)]_vars

\* Two contacts were asked of a bucket of three, none excluded: the head and
\* the one after it were returned, in that order.
C32_Witness ==
    /\ ev.op = "getContacts"
    /\ ev.count = 2
    /\ ev.id = NoExclude
    /\ Len(bucket) = 3
    /\ ev.returned = <<bucket[1], bucket[2]>>

\* Every contact of the list has an id from RangeMin up to, and without,
\* RangeMax.
InRange(contacts) ==
    \A i \in 1..Len(contacts) :
        RangeMin <= contacts[i].id /\ contacts[i].id < RangeMax

\* C33, as claimed: every contact of the bucket has an id of the range of the
\* bucket after any addContact calls; a contact whose id keyInRange does not
\* cover is never stored.
C33_ContactsInRange == InRange(bucket)

\* C33, as the code has it: addContact stores the contact it is given unless
\* the bucket is full, without a look at the range; the contacts of the
\* bucket are all of its range as long as every contact added is one that
\* keyInRange covers, and keyInRange covers the ids from rangeMin up to, and
\* without, rangeMax.
C33_InRangeWhenAddedInRange ==
    [][\A contact \in SeenContacts :
          (AddContact(contact) /\ ~KBucketFull(bucket, contact))
          => /\ bucket'[Len(bucket')] = contact
             /\ (InRange(bucket) /\ keyInRange(RangeMin, RangeMax, contact.id))
                   => InRange(bucket')
             /\ ~keyInRange(RangeMin, RangeMax, contact.id)
                   => ~InRange(bucket')]_vars

\* The contact whose id is RangeMax, which keyInRange does not cover, was
\* added to a bucket whose contacts were of the range, and is stored.
C33_Witness ==
    /\ ev.op = "addContact"
    /\ ~ev.had
    /\ ev.len = 2
    /\ ev.id = RangeMax
    /\ Len(bucket) = 3
    /\ bucket[3].id = RangeMax
    /\ InRange(SubSeq(bucket, 1, 2))

\* C34: getContact and removeContact of an id the bucket does not hold raise
\* ValueError and leave the bucket as it was; getContact of an id it holds
\* returns the contact of that id; removeContact of an id it holds removes
\* the contact of that id and no other, and keeps the others in their order.
C34_AbsentIdRaisesPresentIdRemoved ==
    [][/\ \A id \in SeenIds :
             GetContact(id)
             => /\ bucket' = bucket
                /\ IF \E i \in 1..Len(bucket) : bucket[i].id = id
                   THEN /\ ev'.raised = "none"
                        /\ Len(ev'.returned) = 1
                        /\ ev'.returned[1].id = id
                        /\ \E i \in 1..Len(bucket) : bucket[i] = ev'.returned[1]
                   ELSE ev'.raised = "ValueError"
       /\ \A id \in SeenIds :
             RemoveContact(id)
             => IF \E i \in 1..Len(bucket) : bucket[i].id = id
                THEN /\ ev'.raised = "none"
                     /\ Len(bucket') = Len(bucket) - 1
                     /\ bucket' = Without(bucket, id)
                ELSE /\ ev'.raised = "ValueError"
                     /\ bucket' = bucket]_vars

\* A contact of a bucket of three contacts was removed: two contacts are
\* left and neither has the removed id.
C34_Witness ==
    /\ ev.op = "removeContact"
    /\ ev.had
    /\ ev.len = 3
    /\ ev.raised = "none"
    /\ Len(bucket) = 2
    /\ \A i \in 1..2 : bucket[i].id # ev.id

\* C39: getContacts takes the excluded contact out after it has truncated to
\* count: when the excluded contact is among the first count contacts of a
\* bucket of more than count contacts, count - 1 contacts are returned, and
\* the contact after the first count is not among them; every call leaves
\* the contacts of the bucket and their order as they were.
C39_ExclusionAfterTruncation ==
    [][\A count \in Counts, excludeContact \in SeenIds \cup {NoExclude} :
          GetContacts(count, excludeContact)
          => /\ bucket' = bucket
             /\ (/\ count > 0
                 /\ Len(bucket) > count
                 /\ \E i \in 1..count : bucket[i].id = excludeContact)
                => /\ Len(ev'.returned) = count - 1
                   /\ \A i \in 1..Len(ev'.returned) :
                         ev'.returned[i] # bucket[count + 1]]_vars

\* Two contacts were asked of a bucket of three with one of the first two
\* excluded: one contact was returned and the bucket still has its three.
C39_Witness ==
    /\ ev.op = "getContacts"
    /\ ev.count = 2
    /\ ev.len = 3
    /\ Len(bucket) = 3
    /\ \E i \in 1..2 : bucket[i].id = ev.id
    /\ Len(ev.returned) = 1

\* C36: in every reachable state each uuid of the pending table is that of a
\* request whose connection was made and whose message was sent, whose
\* deferred has not been fired, and whose RESPONSE_TIMEOUT call is scheduled
\* and has not run.
C36_PendingIsConnectedUnfiredAndTimed ==
    \A uuid \in pending :
        /\ req[uuid] # NoReq
        /\ conn[uuid] = "connected"
        /\ sent[uuid] >= 1
        /\ result[uuid] = NoResult
        /\ fires[uuid] = 0
        /\ respTimer[uuid] = "scheduled"

\* Two requests are pending at once, after an inbound message has been
\* handled while they were.
C36_Witness ==
    /\ Cardinality(pending) = 2
    /\ ev.op = "message_received"
    /\ \A uuid \in pending : respTimer[uuid] = "scheduled" /\ sent[uuid] = 1

\* C37: a Pong, a Nodes or a Value message whose uuid is pending resolves the
\* deferred of that uuid and removes the uuid from the pending table,
\* whichever node id the message declares and although the request sent
\* under that uuid was a Ping to another contact: a message that needs no
\* validation or passes it completes the deferred with the message.
C37_CorrelationByUuidAlone ==
    [][\A message \in InboundOfFirst, host \in Hosts, port \in Ports :
          (/\ ev'.op = "message_received"
           /\ message.type \in {"Pong", "Nodes", "Value"}
           /\ message.type = ev'.mtype
           /\ message.uuid \in pending
           /\ MessageReceived(message, host, port))
          => /\ req[message.uuid].type = "Ping"
             /\ pending' = pending \ {message.uuid}
             /\ result[message.uuid] = NoResult
             /\ result'[message.uuid].kind # "none"
             /\ fires'[message.uuid] = fires[message.uuid] + 1
             /\ (message.type # "Value" \/ message.valid)
                => result'[message.uuid] = [kind |-> "callback", val |-> "Message"]]_vars

\* The Ping sent to contact 1 was completed by a Nodes message of node 2,
\* which message_received had just put at the tail of the routing table.
C37_Witness ==
    /\ ev.op = "message_received"
    /\ ev.mtype = "Nodes"
    /\ ev.wasPending
    /\ ev.fired = "callback"
    /\ req[ev.uuid].type = "Ping"
    /\ req[ev.uuid].target = 1
    /\ result[ev.uuid] = [kind |-> "callback", val |-> "Message"]
    /\ ev.rtChanged
    /\ Len(rt) > 0
    /\ rt[Len(rt)].id = 2

\* C38: handle_store decides on the validation before it looks at the
\* timestamp. A Store older than the record stored under its key that fails
\* validation is rejected with the code of the validator, never with 8, and
\* its sender is force-removed from the routing table; one that passes
\* validation is rejected with code 8 and no remove_contact call is made, so
\* that its sender, added on receipt, is in the routing table afterwards.
C38_ValidationBeforeStaleness ==
    [][\A m \in StoresOfPeers, host \in Hosts, port \in Ports :
         (/\ ev'.mtype = "Store"
          /\ store[m.key] # NoRecord
          /\ m.timestamp < store[m.key].timestamp
          /\ MessageReceived(m, host, port))
         => LET n == message_received(Core, m, host, port, now)
            IN  /\ ev'.older
                /\ store' = store
                /\ IF m.valid
                   THEN /\ ev'.raised.code = 8
                        /\ Removals(n.calls) = <<>>
                        /\ Has(rt', m.node)
                        /\ rt'[Len(rt')].id = m.node
                   ELSE /\ ev'.raised.code = m.code
                        /\ ev'.raised.code # 8
                        /\ Removals(n.calls) =
                              << [op |-> "remove_contact", id |-> m.node,
                                  forced |-> TRUE] >>
                        /\ ~Has(rt', m.node)]_vars

\* A Store older than the stored record was rejected with the validator's
\* code 6 and its sender, which was in the routing table, is gone from it
\* while the other peer is still there.
C38_Witness ==
    /\ ev.op = "message_received"
    /\ ev.mtype = "Store"
    /\ ev.older
    /\ ev.raised.code = 6
    /\ ev.rtChanged
    /\ Len(rt) = 1

\* C35: provided the delayed calls that are scheduled run, the deferred of
\* every request send_message has started is fired in the end, and every
\* uuid that is in the pending table is deleted from it in the end, whether
\* the connection fails, times out or is made, and whether the peer answers
\* with a response, with an Error or not at all.
C35_EveryRequestResolved ==
    \A uuid \in Uuids :
        /\ (req[uuid] # NoReq) ~> (result[uuid] # NoResult)
        /\ (uuid \in pending) ~> (uuid \notin pending)

\* The RESPONSE_TIMEOUT call has cancelled the deferred of a request that was
\* still pending, and with it every request the node has sent is resolved
\* and none is pending.
C35_Witness ==
    /\ ev.op = "response_timeout"
    /\ ev.wasPending
    /\ ev.fired = "errback"
    /\ result[ev.uuid] = [kind |-> "errback", val |-> "CancelledError"]
    /\ pending = {}
    /\ \A uuid \in Uuids : req[uuid] # NoReq /\ result[uuid] # NoResult

====
